---- MODULE Spec2Model ----
(***************************************************************************)
(* Chili Tracker (src/app.py): a Streamlit script over one SQLite file     *)
(* with the tables users, chilies and activity_log.                        *)
(*                                                                         *)
(* Every browser session has its own st.session_state and runs the script  *)
(* in its own thread; every run executes sqlite3.connect again, so a run   *)
(* has its own connection and a statement followed by conn.commit() is one *)
(* atomic step on the shared store.                                        *)
(*                                                                         *)
(* A run of the "My Records" page first loads df (ShowTable) and then      *)
(* handles the button that was clicked (UpdateRecord, DeleteRecord); the   *)
(* commits of other sessions can fall between the two, so the handler acts *)
(* on the df its own run loaded, which the store may have left behind.     *)
(***************************************************************************)
EXTENDS Integers, Sequences, FiniteSets, TLC

\* ---- bounds of the model: rows ever inserted into chilies, and rows of
\* activity_log ----
MaxChilies == 2
MaxLog == 3

\* ---- SQL NULL / Python None / pandas NaN, and present values ----
None == << >>
Some(v) == << v >>

Sessions == {"s1", "s2"}
Usernames == {"ana", "bo"}
Passwords == {"pw1", "pw2"}
\* the accounts people try to create: the second "ana" clashes with the first
NewAccounts ==
    { [username |-> "ana", password |-> "pw1", role |-> "user"],
      [username |-> "bo", password |-> "pw2", role |-> "admin"],
      [username |-> "ana", password |-> "pw2", role |-> "admin"] }
Today == 2
MinSeeds == 1
MinCount == 0

\* ---- what is typed into the forms (None: the widget is left untouched) ----
AddForms ==
    { [variety |-> Some("Jalapeno"), planting_date |-> Some(1), seeds_planted |-> Some(2),
       germinated_seeds |-> Some(1), germination_date |-> Some(1),
       harvest_yield |-> Some(3), notes |-> Some("hot")],
      [variety |-> Some("Cayenne"), planting_date |-> None, seeds_planted |-> None,
       germinated_seeds |-> None, germination_date |-> None,
       harvest_yield |-> None, notes |-> None] }

EditForms ==
    { [variety |-> None, planting_date |-> Some(2), seeds_planted |-> None,
       germinated_seeds |-> None, germination_date |-> None,
       harvest_yield |-> Some(3), notes |-> None] }

\* ---- rows of an uploaded CSV, as pandas reads them (an empty cell is NaN) ----
CsvRows ==
    { [variety |-> Some("Jalapeno"), planting_date |-> Some(1), seeds_planted |-> Some(2),
       germinated_seeds |-> Some(1), germination_date |-> Some(1),
       harvest_yield |-> Some(3), notes |-> Some("hot")],
      [variety |-> Some("Cayenne"), planting_date |-> Some(1), seeds_planted |-> Some(0),
       germinated_seeds |-> None, germination_date |-> None,
       harvest_yield |-> None, notes |-> None],
      [variety |-> None, planting_date |-> Some(1), seeds_planted |-> Some(2),
       germinated_seeds |-> Some(1), germination_date |-> Some(1),
       harvest_yield |-> Some(3), notes |-> Some("hot")] }

Batches == UNION { [1 .. n -> CsvRows] : n \in 1 .. MaxChilies }

VARIABLES users, seqUsers, chilies, seqChilies, activity_log,
          logged_in, username, user_id, role, df, shown

vars == << users, seqUsers, chilies, seqChilies, activity_log,
           logged_in, username, user_id, role, df, shown >>

store == << users, seqUsers, chilies, seqChilies, activity_log >>
session == << logged_in, username, user_id, role >>

\* ---- helpers ----
hash_password(password) == "sha256:" \o password

\* WHERE username = ? alone
check_loginNoPassword(u, p) ==
    LET rows == { x \in users : x.username = u }
    IN  IF rows = {} THEN None
        ELSE Some(CHOOSE x \in rows : \A y \in rows : x.id <= y.id)

check_login(u, p) ==
    LET rows == { x \in users : x.username = u /\ x.password = hash_password(p) }
    IN  IF rows = {} THEN None
        ELSE Some(CHOOSE x \in rows : \A y \in rows : x.id <= y.id)

\* INSERT OR REPLACE INTO users
InsertUserReplace(rows, seq, new_user, new_pass, r) ==
    [ok |-> TRUE,
     rows |-> { x \in rows : x.username # new_user }
              \cup { [id |-> seq + 1, username |-> new_user,
                       password |-> hash_password(new_pass), role |-> r] },
     seq |-> seq + 1]

\* INSERT INTO users: username is UNIQUE, a clash raises sqlite3.IntegrityError
InsertUser(rows, seq, new_user, new_pass, r) ==
    IF \E x \in rows : x.username = new_user
    THEN [ok |-> FALSE, rows |-> rows, seq |-> seq]
    ELSE [ok |-> TRUE,
          rows |-> rows \cup { [id |-> seq + 1, username |-> new_user,
                                password |-> hash_password(new_pass), role |-> r] },
          seq |-> seq + 1]

\* SELECT * FROM chilies WHERE user_id = ? ORDER BY planting_date DESC:
\* every ordering of the user's rows that is descending in planting_date;
\* the query names no second key, so rows of one date come in any order.
OwnedNoFilter(rows, uid) == rows

Owned(rows, uid) == { r \in rows : r.user_id = uid }

IsSortedAsc(q) ==
    \A i, j \in 1 .. Len(q) : i < j => q[i].planting_date[1] <= q[j].planting_date[1]

IsSortedDesc(q) ==
    \A i, j \in 1 .. Len(q) : i < j => q[i].planting_date[1] >= q[j].planting_date[1]

load_data(rows, uid) ==
    LET own == Owned(rows, uid)
        n == Cardinality(own)
    IN  { q \in [1 .. n -> own] :
            /\ \A i, j \in 1 .. n : i # j => q[i] # q[j]
            /\ IsSortedDesc(q) }

log_action(log, uid, action) == Append(log, [user_id |-> uid, action |-> action])

\* the columns of chilies declared NOT NULL
NotNullOk(row) ==
    /\ row.user_id # None
    /\ row.variety # None
    /\ row.planting_date # None
    /\ row.seeds_planted # None

\* INSERT INTO chilies: id is AUTOINCREMENT, photo_path NULL unless given
InsertChili(rows, seq, row) ==
    rows \cup { [id |-> seq + 1, user_id |-> row.user_id, variety |-> row.variety,
                 planting_date |-> row.planting_date,
                 seeds_planted |-> row.seeds_planted,
                 germinated_seeds |-> row.germinated_seeds,
                 germination_date |-> row.germination_date,
                 harvest_yield |-> row.harvest_yield,
                 notes |-> row.notes, photo_path |-> row.photo_path] }

\* UPDATE chilies SET ... WHERE id = ?
UpdateChili(rows, record_id, v) ==
    { IF r.id = record_id
      THEN [r EXCEPT !.variety = v.variety, !.planting_date = v.planting_date,
                     !.seeds_planted = v.seeds_planted,
                     !.germinated_seeds = v.germinated_seeds,
                     !.germination_date = v.germination_date,
                     !.harvest_yield = v.harvest_yield, !.notes = v.notes]
      ELSE r : r \in rows }

\* DELETE FROM chilies WHERE id = ?
DeleteChili(rows, record_id) == { r \in rows : r.id # record_id }

\* ---- widgets: what the user typed (None: left untouched) over the default ----
text_input(value, typed) == IF typed = None THEN value ELSE typed[1]
date_input(value, typed) == IF typed = None THEN value ELSE typed[1]
number_input(min_value, value, typed) == IF typed = None THEN value ELSE typed[1]

\* the script stops after login_ui() unless the session is logged in
GateOnUserId(s) == user_id[s] # None

Gate(s) == logged_in[s]

Show(s, text) == shown' = text

Init ==
    /\ users = {}
    /\ seqUsers = 0
    /\ chilies = {}
    /\ seqChilies = 0
    /\ activity_log = << >>
    /\ logged_in = [s \in Sessions |-> FALSE]
    /\ username = [s \in Sessions |-> ""]
    /\ user_id = [s \in Sessions |-> None]
    /\ role = [s \in Sessions |-> ""]
    /\ df = [s \in Sessions |-> << >>]
    /\ shown = ""

\* ---- login_ui ----
Login(s, u, p) ==
    /\ ~Gate(s)
    /\ LET user == check_login(u, p)
       IN  IF user # None
           THEN /\ logged_in' = [logged_in EXCEPT ![s] = TRUE]
                /\ username' = [username EXCEPT ![s] = user[1].username]
                /\ user_id' = [user_id EXCEPT ![s] = Some(user[1].id)]
                /\ role' = [role EXCEPT ![s] = user[1].role]
                /\ Show(s, "Login successful!")
           ELSE /\ Show(s, "Invalid credentials")
                /\ UNCHANGED session
    /\ UNCHANGED << store, df >>

CreateAccount(s, new_user, new_pass, r) ==
    /\ ~Gate(s)
    /\ LET res == InsertUser(users, seqUsers, new_user, new_pass, r)
       IN  /\ users' = res.rows
           /\ seqUsers' = res.seq
           /\ IF res.ok THEN Show(s, "Account created.")
                        ELSE Show(s, "Username already exists.")
    /\ UNCHANGED << chilies, seqChilies, activity_log, session, df >>

Logout(s) ==
    /\ Gate(s)
    /\ logged_in' = [logged_in EXCEPT ![s] = FALSE]
    /\ df' = [df EXCEPT ![s] = << >>]
    /\ shown' = ""
    /\ UNCHANGED << store, username, user_id, role >>

\* ---- show_table: the listing part of the page; df[s] is the table on the
\* page of session s, empty while the session is on a page without one ----
ShowTable(s) ==
    /\ Gate(s)
    /\ \E q \in load_data(chilies, user_id[s]) : df' = [df EXCEPT ![s] = q]
    /\ shown' = ""
    /\ UNCHANGED << store, session >>

\* ---- show_add_form ----
AddValues(s, f) ==
    [user_id |-> user_id[s],
     variety |-> Some(text_input("", f.variety)),
     planting_date |-> Some(date_input(Today, f.planting_date)),
     seeds_planted |-> Some(number_input(MinSeeds, MinSeeds, f.seeds_planted)),
     germinated_seeds |-> Some(number_input(MinCount, MinCount, f.germinated_seeds)),
     germination_date |-> Some(date_input(Today, f.germination_date)),
     harvest_yield |-> Some(number_input(MinCount, MinCount, f.harvest_yield)),
     notes |-> Some(text_input("", f.notes)),
     photo_path |-> None]

AddRecord(s, f) ==
    /\ Gate(s)
    /\ seqChilies < MaxChilies
    /\ Len(activity_log) < MaxLog
    /\ NotNullOk(AddValues(s, f))
    /\ chilies' = InsertChili(chilies, seqChilies, AddValues(s, f))
    /\ seqChilies' = seqChilies + 1
    /\ activity_log' = log_action(activity_log, user_id[s],
                                  "Added chili variety " \o AddValues(s, f).variety[1])
    /\ Show(s, AddValues(s, f).variety[1] \o " added!")
    /\ df' = [df EXCEPT ![s] = << >>]
    /\ UNCHANGED << users, seqUsers, session >>

\* ---- show_table with "Enable editing" ticked ----
Selected(q, record_id) == CHOOSE r \in { q[i] : i \in 1 .. Len(q) } : r.id = record_id

Ids(q) == { q[i].id : i \in 1 .. Len(q) }

\* pandas reads a column holding numbers and NULLs as float64 (NULL is NaN),
\* a column of NULLs alone as None objects, a column of numbers alone as int64
AllNull(q, col) == \A i \in 1 .. Len(q) : q[i][col] = None
NoNull(q, col) == \A i \in 1 .. Len(q) : q[i][col] # None

\* the widgets of edit_form raise when value < min_value, and when value is a
\* float (or NaN) while min_value is an int; the script run ends there
EditFormRenders(q, record_id) ==
    /\ Selected(q, record_id).seeds_planted[1] >= MinSeeds
    /\ AllNull(q, "germinated_seeds") \/ NoNull(q, "germinated_seeds")
    /\ AllNull(q, "harvest_yield") \/ NoNull(q, "harvest_yield")

\* selected[col] or 0
OrZero(x) == IF x = None THEN 0 ELSE x[1]

\* str(value) is the default text of a text widget
Str(x) == IF x = None THEN "None" ELSE x[1]

EditValues(q, record_id, f) ==
    LET selected == Selected(q, record_id)
    IN  [variety |-> Some(text_input(Str(selected.variety), f.variety)),
         planting_date |-> Some(date_input(selected.planting_date[1], f.planting_date)),
         seeds_planted |-> Some(number_input(MinSeeds, selected.seeds_planted[1],
                                             f.seeds_planted)),
         germinated_seeds |-> Some(number_input(MinCount,
                                   OrZero(selected.germinated_seeds), f.germinated_seeds)),
         germination_date |-> Some(date_input(
                                   IF selected.germination_date # None
                                   THEN selected.germination_date[1] ELSE Today,
                                   f.germination_date)),
         harvest_yield |-> Some(number_input(MinCount,
                                OrZero(selected.harvest_yield), f.harvest_yield)),
         notes |-> Some(text_input(Str(selected.notes), f.notes))]

UpdateRecord(s, record_id, f) ==
    /\ Gate(s)
    /\ record_id \in Ids(df[s])
    /\ EditFormRenders(df[s], record_id)
    /\ Len(activity_log) < MaxLog
    /\ chilies' = UpdateChili(chilies, record_id, EditValues(df[s], record_id, f))
    /\ activity_log' = log_action(activity_log, user_id[s],
                                  "Updated chili record " \o ToString(record_id))
    /\ Show(s, "Updated successfully.")
    /\ \E q \in load_data(chilies', user_id[s]) : df' = [df EXCEPT ![s] = q]
    /\ UNCHANGED << users, seqUsers, seqChilies, session >>

DeleteRecord(s, record_id) ==
    /\ Gate(s)
    /\ record_id \in Ids(df[s])
    /\ EditFormRenders(df[s], record_id)
    /\ Len(activity_log) < MaxLog
    /\ chilies' = DeleteChili(chilies, record_id)
    /\ activity_log' = log_action(activity_log, user_id[s],
                                  "Deleted chili record " \o ToString(record_id))
    /\ Show(s, "Record deleted.")
    /\ \E q \in load_data(chilies', user_id[s]) : df' = [df EXCEPT ![s] = q]
    /\ UNCHANGED << users, seqUsers, seqChilies, session >>

\* ---- show_upload_csv ----
CsvValues(s, row) ==
    [user_id |-> user_id[s], variety |-> row.variety,
     planting_date |-> row.planting_date, seeds_planted |-> row.seeds_planted,
     germinated_seeds |-> row.germinated_seeds,
     germination_date |-> row.germination_date,
     harvest_yield |-> row.harvest_yield, notes |-> row.notes, photo_path |-> None]

\* the rows of the loop that c.execute accepts before the first one it refuses
RECURSIVE InsertRows(_, _, _, _)
InsertRows(rows, seq, s, batch) ==
    IF batch = << >> THEN [ok |-> TRUE, rows |-> rows, seq |-> seq]
    ELSE IF ~NotNullOk(CsvValues(s, Head(batch)))
         THEN [ok |-> FALSE, rows |-> rows, seq |-> seq]
         ELSE InsertRows(InsertChili(rows, seq, CsvValues(s, Head(batch))),
                         seq + 1, s, Tail(batch))

\* one conn.commit() after the loop: a row that raises ends the run before it,
\* and the run's connection is dropped with its transaction open
UploadCsv(s, batch) ==
    /\ Gate(s)
    /\ seqChilies + Len(batch) <= MaxChilies
    /\ Len(activity_log) < MaxLog
    /\ LET res == InsertRows(chilies, seqChilies, s, batch)
       IN  IF res.ok
           THEN /\ chilies' = res.rows
                /\ seqChilies' = res.seq
                /\ activity_log' = log_action(activity_log, user_id[s],
                                              "Uploaded chili data from CSV")
                /\ Show(s, "CSV records added!")
           ELSE /\ Show(s, "sqlite3.IntegrityError")
                /\ UNCHANGED << chilies, seqChilies, activity_log >>
    /\ df' = [df EXCEPT ![s] = << >>]
    /\ UNCHANGED << users, seqUsers, session >>

Next ==
    \/ \E s \in Sessions, u \in Usernames, p \in Passwords : Login(s, u, p)
    \/ \E s \in Sessions, a \in NewAccounts :
           CreateAccount(s, a.username, a.password, a.role)
    \/ \E s \in Sessions : Logout(s)
    \/ \E s \in Sessions : ShowTable(s)
    \/ \E s \in Sessions, f \in AddForms : AddRecord(s, f)
    \/ \E s \in Sessions, f \in EditForms, id \in 1 .. MaxChilies :
           UpdateRecord(s, id, f)
    \/ \E s \in Sessions, id \in 1 .. MaxChilies : DeleteRecord(s, id)
    \/ \E s \in Sessions, batch \in Batches : UploadCsv(s, batch)

Spec == Init /\ [][Next]_vars

\* ---- properties ----
RecordIds == 1 .. MaxChilies
StoredIds == { r.id : r \in chilies }
LastLog == activity_log[Len(activity_log)]

C2_DeleteThenNotFound ==
    [][\A s \in Sessions, id \in RecordIds :
          DeleteRecord(s, id) =>
              /\ id \notin Ids(df'[s])
              /\ (id \notin StoredIds => shown' # "Record deleted.")]_vars

\* C3: an add stores exactly one new record holding what was typed, and
\* germinated_seeds, harvest_yield and notes are NULL when left untouched.
C3_AddStoresAbsent ==
    [][\A s \in Sessions, f \in AddForms :
          AddRecord(s, f) =>
              \E r \in chilies' :
                  /\ chilies' \ chilies = {r}
                  /\ r.user_id = user_id[s]
                  /\ r.variety = f.variety
                  /\ f.germinated_seeds = None => r.germinated_seeds = None
                  /\ f.harvest_yield = None => r.harvest_yield = None
                  /\ f.notes = None => r.notes = None]_vars

\* C4: every stored record has seeds_planted >= 1.
C4_SeedsAtLeastOne == \A r \in chilies : r.seeds_planted[1] >= 1

\* C7: the log only grows at its end, and every step that changes users or
\* chilies appends an entry.
C7_EveryMutationLogged ==
    [][/\ Len(activity_log') >= Len(activity_log)
       /\ SubSeq(activity_log', 1, Len(activity_log)) = activity_log
       /\ (users' # users \/ chilies' # chilies)
              => Len(activity_log') > Len(activity_log)]_vars

\* C8: an upload inserts every valid row of the batch (variety and
\* planting_date present, seeds_planted >= 1), whether it stands before or
\* after a row that fails.
ValidRow(row) ==
    /\ row.variety # None /\ row.variety # Some("")
    /\ row.planting_date # None
    /\ row.seeds_planted # None /\ row.seeds_planted[1] >= 1

C8_RowsIndependent ==
    [][\A s \in Sessions, batch \in Batches :
          UploadCsv(s, batch) =>
              Cardinality(chilies' \ chilies) >=
                  Cardinality({ i \in 1 .. Len(batch) : ValidRow(batch[i]) })]_vars

\* C5: a login succeeds exactly when a stored user has that username and the
\* hash of that password, and the session then carries that user; any other
\* attempt shows the one message "Invalid credentials" and leaves the session
\* logged out and unchanged.
Matching(u, p) == { x \in users : x.username = u /\ x.password = "sha256:" \o p }

C5_Authenticate ==
    [][\A s \in Sessions, u \in Usernames, p \in Passwords :
          Login(s, u, p) =>
              /\ Matching(u, p) # {} =>
                     /\ logged_in'[s]
                     /\ \E x \in Matching(u, p) :
                            /\ user_id'[s] = Some(x.id)
                            /\ username'[s] = x.username
                            /\ role'[s] = x.role
              /\ Matching(u, p) = {} =>
                     /\ shown' = "Invalid credentials"
                     /\ ~logged_in'[s]
                     /\ user_id'[s] = user_id[s]
                     /\ username'[s] = username[s]
                     /\ role'[s] = role[s]]_vars

C5_Witness ==
    /\ shown = "Invalid credentials"
    /\ users # {}
    /\ \E s \in Sessions : ~logged_in[s] /\ user_id[s] = None

\* C6: creating an account under a username that is taken shows "Username
\* already exists." and leaves the users table as it was, and no two stored
\* users share a username.
C6_DuplicateUsername ==
    [][/\ \A s \in Sessions, a \in NewAccounts :
             (CreateAccount(s, a.username, a.password, a.role)
              /\ \E x \in users : x.username = a.username)
                 => users' = users /\ shown' = "Username already exists."
       /\ \A x, y \in users' : x.username = y.username => x = y]_vars

C6_Witness ==
    /\ shown = "Username already exists."
    /\ \E x \in users : x.username = "ana"

\* C9: every stored record's user_id is the id of a stored user, and a new
\* record carries the user_id of a session that is logged in.
C9_OwnerExists ==
    [][/\ \A r \in chilies' : \E x \in users' : r.user_id = Some(x.id)
       /\ \A r \in chilies' :
             r.id \notin StoredIds =>
                 \E s \in Sessions : logged_in[s] /\ user_id[s] = r.user_id]_vars

C9_Witness ==
    \E s \in Sessions, r \in chilies :
        /\ ~logged_in[s]
        /\ user_id[s] = r.user_id
        /\ \A s2 \in Sessions : logged_in[s2] => user_id[s2] # r.user_id

\* C10 as stated: a listing is in planting_date descending order and records
\* of one planting_date are in id descending order.
C10_TiesByIdDescending ==
    \A s \in Sessions : \A i, j \in 1 .. Len(df[s]) :
        i < j =>
            \/ df[s][i].planting_date[1] > df[s][j].planting_date[1]
            \/ /\ df[s][i].planting_date = df[s][j].planting_date
               /\ df[s][i].id > df[s][j].id

\* C10 as amended: a listing holds exactly the records of the session's user,
\* each once, in planting_date descending order; the order of records of one
\* planting_date is not fixed.
Listed(q) == { q[i] : i \in 1 .. Len(q) }

C10_ListingByDate ==
    [][\A s \in Sessions :
          (\/ ShowTable(s)
           \/ \E id \in RecordIds : DeleteRecord(s, id)
           \/ \E id \in RecordIds, f \in EditForms : UpdateRecord(s, id, f))
          => /\ Listed(df'[s]) = { r \in chilies' : r.user_id = user_id[s] }
             /\ Len(df'[s]) = Cardinality(Listed(df'[s]))
             /\ \A i, j \in 1 .. Len(df'[s]) :
                    i < j => df'[s][i].planting_date[1] >= df'[s][j].planting_date[1]]_vars

C10_Witness ==
    \E s \in Sessions :
        /\ Len(df[s]) = 2
        /\ df[s][1].planting_date = df[s][2].planting_date
        /\ df[s][1].id < df[s][2].id
====
